---- MODULE Spec2Model ----
(***************************************************************************)
(* Model of the chat front end: ChatInterface (message log, input buffer,  *)
(* loading flag, handleSendMessage) and ChartRenderer (renderChart,        *)
(* renderTable).                                                           *)
(*                                                                         *)
(* JavaScript values are tagged records [t, v].  A string is a sequence of *)
(* pieces; a piece is either one whitespace character or a run of text     *)
(* that neither starts nor ends with whitespace.  An object is a sequence  *)
(* of <<key, value>> pairs in insertion order.                             *)
(***************************************************************************)
EXTENDS Integers, Sequences, FiniteSets, TLC

VARIABLES messages, inputMessage, isLoading, calls, last, props, plan

vars == <<messages, inputMessage, isLoading, calls, last, props, plan>>
chatVars == <<messages, inputMessage, isLoading, calls, last>>
renderVars == <<props, plan>>

\* ---------------------------------------------------------------- bounds
MaxRequests == 2
MaxInputLen == 1
MaxRows == 25

\* ------------------------------------------------------------- JS values
Undef == [t |-> "undefined", v |-> 0]
Null == [t |-> "null", v |-> 0]
Str(pieces) == [t |-> "string", v |-> pieces]
S(text) == Str(<<text>>)
Num(n) == [t |-> "number", v |-> n]
Bool(b) == [t |-> "boolean", v |-> b]
Arr(items) == [t |-> "array", v |-> items]
Obj(pairs) == [t |-> "object", v |-> pairs]

Nullish(x) == x.t \in {"undefined", "null"}

Truthy(x) ==
    CASE x.t = "undefined" -> FALSE
      [] x.t = "null" -> FALSE
      [] x.t = "boolean" -> x.v
      [] x.t = "number" -> x.v # 0
      [] x.t = "string" -> Len(x.v) > 0
      [] OTHER -> TRUE

HasKey(x, k) == x.t = "object" /\ \E i \in 1..Len(x.v) : x.v[i][1] = k

\* x.k for a non-nullish x (an absent property reads undefined)
Get(x, k) ==
    IF HasKey(x, k)
    THEN x.v[CHOOSE i \in 1..Len(x.v) : x.v[i][1] = k][2]
    ELSE IF k = "length" /\ x.t \in {"array", "string"}
         THEN Num(Len(x.v))
         ELSE Undef

\* a === b for primitives
StrictEq(a, b) == a.t = b.t /\ a.v = b.v

\* x?.k
OptGet(x, k) == IF Nullish(x) THEN Undef ELSE Get(x, k)

\* a || b
Or(a, b) == IF Truthy(a) THEN a ELSE b

\* x[0]
First(x) ==
    CASE x.t = "array" -> IF Len(x.v) > 0 THEN x.v[1] ELSE Undef
      [] x.t = "string" -> IF Len(x.v) > 0 THEN S(x.v[1]) ELSE Undef
      [] OTHER -> Get(x, "0")

\* Object.keys(x) for a non-nullish x: own keys in insertion order
ObjectKeysReversed(x) ==
    IF x.t = "object"
    THEN Arr([i \in 1..Len(x.v) |-> S(x.v[Len(x.v) + 1 - i][1])])
    ELSE Arr(<<>>)

ObjectKeys(x) ==
    CASE x.t = "object" -> Arr([i \in 1..Len(x.v) |-> S(x.v[i][1])])
      [] x.t = "array" -> Arr([i \in 1..Len(x.v) |-> S(ToString(i - 1))])
      [] x.t = "string" -> Arr([i \in 1..Len(x.v) |-> S(ToString(i - 1))])
      [] OTHER -> Arr(<<>>)

\* ------------------------------------------------------------- strings
WS == {" ", "\t", "\n"}

RECURSIVE TrimStart(_)
TrimStart(s) ==
    IF s = <<>> THEN s
    ELSE IF Head(s) \in WS THEN TrimStart(Tail(s)) ELSE s

RECURSIVE TrimEnd(_)
TrimEnd(s) ==
    IF s = <<>> THEN s
    ELSE IF s[Len(s)] \in WS THEN TrimEnd(SubSeq(s, 1, Len(s) - 1)) ELSE s

\* String.prototype.trim
Trim(s) == TrimEnd(TrimStart(s))

Chars == {"a", " "}

RECURSIVE SeqsUpTo(_, _)
SeqsUpTo(A, n) ==
    IF n = 0 THEN {<<>>}
    ELSE LET shorter == SeqsUpTo(A, n - 1)
         IN shorter \cup {Append(s, c) : s \in shorter, c \in A}

\* what the user can type into the text field
Typed == SeqsUpTo(Chars, MaxInputLen)

exampleQueries ==
    << <<"What are our top selling products?">>,
       <<"How are sales performing this year?">>,
       <<"Tell me about customer distribution">>,
       <<"Show me a chart of sales trends">>,
       <<"Show me the table of product details">> >>

\* ----------------------------------------------------- cell rendering
RECURSIVE Join(_)
Join(pieces) == IF pieces = <<>> THEN "" ELSE Head(pieces) \o Join(Tail(pieces))

RECURSIVE JSONStringify(_)
RECURSIVE JSONItems(_)
RECURSIVE JSONPairs(_)
JSONItems(items) ==
    IF items = <<>> THEN ""
    ELSE LET h == Head(items)
             \* undefined inside an array serialises as null
             e == IF h.t = "undefined" THEN "null" ELSE JSONStringify(h)
         IN IF Len(items) = 1 THEN e ELSE e \o "," \o JSONItems(Tail(items))
JSONPairs(pairs) ==
    IF pairs = <<>> THEN ""
    ELSE LET h == Head(pairs)
             e == "\"" \o h[1] \o "\":" \o JSONStringify(h[2])
         IN IF Len(pairs) = 1 THEN e ELSE e \o "," \o JSONPairs(Tail(pairs))
\* JSON.stringify(x), compact form
JSONStringify(x) ==
    CASE x.t = "null" -> "null"
      [] x.t = "undefined" -> "null"
      [] x.t = "boolean" -> IF x.v THEN "true" ELSE "false"
      [] x.t = "number" -> ToString(x.v)
      [] x.t = "string" -> "\"" \o Join(x.v) \o "\""
      [] x.t = "array" -> "[" \o JSONItems(x.v) \o "]"
      [] OTHER ->
           "{" \o JSONPairs(SelectSeq(x.v, LAMBDA pr : pr[2].t # "undefined")) \o "}"

\* the text of one table cell (ChartRenderer.jsx 178-180)
CellText(value) ==
    IF value.t \in {"object", "array"} THEN JSONStringify(value)
    ELSE CASE value.t = "undefined" -> ""
           [] value.t = "null" -> ""
           [] value.t = "boolean" -> IF value.v THEN "true" ELSE "false"
           [] value.t = "number" -> ToString(value.v)
           [] OTHER -> Join(value.v)

\* a value used as a property key
ToPropertyKey(x) ==
    CASE x.t = "string" -> Join(x.v)
      [] x.t = "number" -> ToString(x.v)
      [] x.t = "object" -> "[object Object]"
      [] OTHER -> x.t

\* row[key]; the row is not nullish
Member(row, key) ==
    IF row.t = "array"
    THEN IF \E i \in 1..Len(row.v) : ToString(i - 1) = key
         THEN row.v[CHOOSE i \in 1..Len(row.v) : ToString(i - 1) = key]
         ELSE Get(row, key)
    ELSE Get(row, key)

\* React accepts primitives and arrays of them as children, not plain objects
ValidChild(x) ==
    /\ x.t # "object"
    /\ x.t = "array" => \A i \in 1..Len(x.v) : x.v[i].t \notin {"object", "array"}

\* ------------------------------------------------------- ChartRenderer
TableCapOffByOne == 10 + 1

TableCap == 10

Unrendered == [kind |-> "unrendered"]
Nothing == [kind |-> "none"]
Thrown == [kind |-> "throw"]
UnableNotice ==
    [kind |-> "notice",
     text |-> "Unable to generate chart. Please try a different query or request the data in table format."]
NoDataNotice == [kind |-> "notice", text |-> "No data available for display"]

hasChartData(data) ==
    LET cd == Get(data, "chart_data")
    IN IF ~Truthy(cd) THEN FALSE
       ELSE LET d == Get(cd, "data")
            IN IF ~Truthy(d) THEN FALSE
               ELSE Truthy(Get(d, "labels")) /\ Truthy(Get(d, "datasets"))

ChartTitle(data, fallback) ==
    LET options == Get(Get(data, "chart_data"), "options")
    IN Or(OptGet(OptGet(OptGet(options, "plugins"), "title"), "text"), S(fallback))

ChartPlan(mode, data, fallback) ==
    [kind |-> mode,
     labels |-> Get(Get(Get(data, "chart_data"), "data"), "labels"),
     datasets |-> Get(Get(Get(data, "chart_data"), "data"), "datasets"),
     title |-> ChartTitle(data, fallback)]

renderLineChart(data) == ChartPlan("line", data, "Trend Analysis")
renderBarChart(data) == ChartPlan("bar", data, "Comparison")
renderPieChart(data) == ChartPlan("pie", data, "Distribution")

Min(a, b) == IF a < b THEN a ELSE b

renderTable(data) ==
    LET cd == Get(data, "chart_data")
        tableData == Or(Or(OptGet(cd, "data"), Get(data, "data")), Arr(<<>>))
        len == Get(tableData, "length")
        nonEmpty == len.t = "number" /\ len.v > 0
        explicit == OptGet(cd, "columns")
    IN IF ~Truthy(tableData) \/ StrictEq(len, Num(0)) THEN NoDataNotice
       ELSE IF ~Truthy(explicit) /\ nonEmpty /\ Nullish(First(tableData))
       THEN Thrown    \* Object.keys of a nullish first row
       ELSE LET columns == Or(explicit,
                              IF nonEmpty THEN ObjectKeys(First(tableData))
                              ELSE Arr(<<>>))
            IN IF columns.t # "array" THEN Thrown    \* columns.map
               ELSE IF \E c \in 1..Len(columns.v) : Nullish(columns.v[c])
               THEN Thrown    \* column.field of a nullish column
               ELSE LET header(c) == Or(Get(columns.v[c], "headerName"), columns.v[c])
                        key(c) == ToPropertyKey(Or(Get(columns.v[c], "field"),
                                                   columns.v[c]))
                    IN IF \E c \in 1..Len(columns.v) : ~ValidChild(header(c))
                       THEN Thrown
                       ELSE IF tableData.t # "array" THEN Thrown  \* slice(..).map
                       ELSE LET shown == SubSeq(tableData.v, 1,
                                                Min(TableCap, Len(tableData.v)))
                            IN IF Len(columns.v) > 0
                                  /\ \E r \in 1..Len(shown) : Nullish(shown[r])
                               THEN Thrown    \* row[columnKey] of a nullish row
                               ELSE [kind |-> "table",
                                     columns |-> [c \in 1..Len(columns.v) |->
                                                    CellText(header(c))],
                                     rows |-> [r \in 1..Len(shown) |->
                                                 [c \in 1..Len(columns.v) |->
                                                    CellText(Member(shown[r], key(c)))]],
                                     caption |-> IF Len(tableData.v) > TableCap
                                                 THEN <<TableCap, Len(tableData.v)>>
                                                 ELSE <<>>]

renderChartTableFirst(data, visualizationType) ==
    IF ~hasChartData(data) THEN renderTable(data)
    ELSE CASE StrictEq(visualizationType, S("line")) -> renderLineChart(data)
           [] StrictEq(visualizationType, S("bar")) -> renderBarChart(data)
           [] StrictEq(visualizationType, S("pie")) -> renderPieChart(data)
           [] OTHER -> renderTable(data)

renderChart(data, visualizationType) ==
    IF ~hasChartData(data)
    THEN IF StrictEq(visualizationType, S("table")) THEN renderTable(data)
         ELSE UnableNotice
    ELSE CASE StrictEq(visualizationType, S("line")) -> renderLineChart(data)
           [] StrictEq(visualizationType, S("bar")) -> renderBarChart(data)
           [] StrictEq(visualizationType, S("pie")) -> renderPieChart(data)
           [] StrictEq(visualizationType, S("table")) -> renderTable(data)
           [] OTHER -> renderTable(data)

ChartRenderer(p) ==
    IF ~Truthy(p.data) THEN Nothing
    ELSE LET body == renderChart(p.data, p.visualizationType)
         IN IF body.kind = "throw" THEN Thrown
            ELSE [kind |-> "paper",
                  heading |-> IF Truthy(p.hasForecast) THEN "Forecast Results"
                              ELSE "Data Visualization",
                  body |-> body,
                  period |-> IF Truthy(p.hasForecast) /\ Truthy(Get(p.data, "forecast"))
                             THEN Or(Get(p.data, "periods"), Num(30))
                             ELSE Undef]

\* what ChartRenderer draws inside its frame
Mode(pl) == IF pl.kind = "paper" THEN pl.body.kind ELSE pl.kind

\* ------------------------------------------------- service payloads
Row(i) == Obj(<< <<"name", S("Widget")>>, <<"qty", Num(41 + i)>> >>)
RowsOf(n) == Arr([i \in 1..n |-> Row(i)])

Labels == Arr(<<S("Jan"), S("Feb")>>)
Dataset(k) == Obj(<< <<"label", S("Sales")>>, <<"data", Arr([i \in 1..k |-> Num(i)])>> >>)
Series(k) == Arr(<<Dataset(k)>>)

ChartData(inner) == Obj(<< <<"chart_data", Obj(inner)>> >>)
GoodChart == ChartData(<< <<"data", Obj(<< <<"labels", Labels>>, <<"datasets", Series(2)>> >>)>> >>)
TitledChart ==
    ChartData(<< <<"data", Obj(<< <<"labels", Labels>>, <<"datasets", Series(2)>> >>)>>,
                 <<"options", Obj(<< <<"plugins", Obj(<< <<"title",
                       Obj(<< <<"text", S("Monthly sales")>> >>)>> >>)>> >>)>> >>)
NoLabelsChart == ChartData(<< <<"data", Obj(<< <<"datasets", Series(2)>> >>)>> >>)
EmptyLabelsChart ==
    ChartData(<< <<"data", Obj(<< <<"labels", Arr(<<>>)>>, <<"datasets", Series(2)>> >>)>> >>)
NoDatasetsChart == ChartData(<< <<"data", Obj(<< <<"labels", Labels>> >>)>> >>)
MismatchChart ==
    ChartData(<< <<"data", Obj(<< <<"labels", Labels>>, <<"datasets", Series(1)>> >>)>> >>)

Column(field, header) == Obj(<< <<"field", S(field)>>, <<"headerName", S(header)>> >>)
GridWithColumns ==
    ChartData(<< <<"data", RowsOf(2)>>,
                 <<"columns", Arr(<<Column("qty", "Quantity"), Column("name", "Name")>>)>> >>)
GridNoColumns == ChartData(<< <<"data", RowsOf(2)>> >>)
GridBareField ==
    ChartData(<< <<"data", RowsOf(1)>>,
                 <<"columns", Arr(<<Obj(<< <<"field", S("name")>> >>)>>)>> >>)
GridTextColumns == ChartData(<< <<"data", RowsOf(1)>>, <<"columns", S("name")>> >>)

RowData(n) == Obj(<< <<"data", RowsOf(n)>> >>)
NullRowData == Obj(<< <<"data", Arr(<<Null>>)>> >>)
TrailingNullRowData == Obj(<< <<"data", Arr(<<Row(1), Null>>)>> >>)
TextRowData == Obj(<< <<"data", S("abc")>> >>)
EmptyChartRowData == Obj(<< <<"chart_data", Obj(<<>>)>>, <<"data", RowsOf(1)>> >>)
ForecastData ==
    Obj(<< <<"data", RowsOf(1)>>, <<"forecast", RowsOf(1)>>, <<"periods", Num(7)>> >>)
BareRows == RowsOf(1)

DataShapes ==
    {Undef, Null, BareRows, Obj(<<>>), NullRowData, TrailingNullRowData, TextRowData,
     GoodChart, TitledChart, NoLabelsChart, EmptyLabelsChart, NoDatasetsChart,
     MismatchChart, GridWithColumns, GridNoColumns, GridBareField, GridTextColumns,
     EmptyChartRowData, ForecastData}
    \cup {RowData(n) : n \in 0..MaxRows}

VisTypes == {S("line"), S("bar"), S("pie"), S("table"), S("text"), S("scatter"), Undef}

PropsSet ==
    [data : DataShapes, visualizationType : VisTypes, hasForecast : {Undef, Bool(TRUE)}]

NoProps == [data |-> Undef, visualizationType |-> Undef, hasForecast |-> Undef]

\* a JSON body with the given members; an undefined member is left out
Body(response, data, visualizationType, hasForecast) ==
    Obj(SelectSeq(<< <<"response", response>>,
                     <<"data", data>>,
                     <<"visualization_type", visualizationType>>,
                     <<"has_forecast", hasForecast>> >>,
                  LAMBDA pr : pr[2].t # "undefined"))

Answer == Str(<<"Here", " ", "are", " ", "your", " ", "top", " ", "products">>)

Bodies ==
    {Null,
     Body(Answer, BareRows, S("table"), Undef),
     Body(Answer, RowData(1), S("table"), Undef),
     Body(Answer, GoodChart, S("table"), Undef),
     Body(Undef, RowData(1), S("bar"), Undef),
     Body(Answer, RowData(1), S("line"), Undef),
     Body(Answer, RowData(1), S("pie"), Undef),
     Body(Answer, RowData(1), S("text"), Undef)}

\* how the promise of axios.post can settle: no response at all, a status
\* outside 2xx (both reject), or a 2xx response carrying a parsed body
Outcomes ==
    {[state |-> "rejected", status |-> 0, data |-> Undef],
     [state |-> "rejected", status |-> 500, data |-> Undef]}
    \cup {[state |-> "fulfilled", status |-> 200, data |-> b] : b \in Bodies}

\* ------------------------------------------------------- ChatInterface
Apology == S("Sorry, I encountered an error processing your request.")

\* a member a message was not built with reads undefined
UserMessage(input) ==
    [type |-> "user", content |-> Str(input), data |-> Undef,
     visualization |-> Undef, hasForecast |-> Undef, isError |-> Undef]

BotMessageWrongField(body) ==
    [type |-> "bot", content |-> Get(body, "content"), data |-> Get(body, "data"),
     visualization |-> Get(body, "visualization_type"),
     hasForecast |-> Get(body, "has_forecast"), isError |-> Undef]

BotMessage(body) ==
    [type |-> "bot", content |-> Get(body, "response"), data |-> Get(body, "data"),
     visualization |-> Get(body, "visualization_type"),
     hasForecast |-> Get(body, "has_forecast"), isError |-> Undef]

ErrorMessageUnflagged ==
    [type |-> "bot", content |-> Apology, data |-> Undef,
     visualization |-> Undef, hasForecast |-> Undef, isError |-> Undef]

ErrorMessage ==
    [type |-> "bot", content |-> Apology, data |-> Undef,
     visualization |-> Undef, hasForecast |-> Undef, isError |-> Bool(TRUE)]

PrependMessage(prev, message) == <<message>> \o prev

\* prev => [...prev, message]
AppendMessage(prev, message) == Append(prev, message)

RejectsNothing(input, loading) == FALSE

RejectsWhileLoading(input, loading) == loading

\* the early return of handleSendMessage
Rejects(input, loading) == Trim(input) = <<>> \/ loading

RequestBodyAfterClear(input) == Obj(<< <<"message", Str(<<>>)>> >>)

\* the body of the POST
RequestBody(input) == Obj(<< <<"message", Str(input)>> >>)

ResumableAtOnce(call) == call.state # "done"

\* the await: the handler resumes once the promise has settled
Resumable(call) == call.state \in {"fulfilled", "rejected"}

\* the try block runs to its end unless the promise rejected or reading
\* response.data.response throws
TryCompletes(call) == call.state = "fulfilled" /\ ~Nullish(call.data)

\* a call whose handler has finished; its response is no longer referenced
Done(call) == [request |-> call.request, state |-> "done", status |-> 0, data |-> Undef]

FinallyKeepsLoading(path, loading) == loading

FinallyOnSuccess(path, loading) == IF path = "catch" THEN loading ELSE FALSE

\* isLoading once the handler has finished along the given path
Finally(path, loading) == FALSE

VisualizationForAnyHint(message) ==
    IF message.type = "bot" /\ Truthy(message.data)
    THEN ChartRenderer([data |-> message.data,
                        visualizationType |-> message.visualization,
                        hasForecast |-> message.hasForecast])
    ELSE Nothing

\* what the list item of one message shows below its bubble
Visualization(message) ==
    IF message.type = "bot" /\ Truthy(message.data)
       /\ ~StrictEq(message.visualization, S("text"))
    THEN ChartRenderer([data |-> message.data,
                        visualizationType |-> message.visualization,
                        hasForecast |-> message.hasForecast])
    ELSE Nothing

\* a render that threw unmounts the tree: no handler is attached any more
Crashed == \E i \in 1..Len(messages) : Visualization(messages[i]).kind = "throw"

Init ==
    /\ messages = <<>>
    /\ inputMessage = <<>>
    /\ isLoading = FALSE
    /\ calls = <<>>
    /\ last = "mount"
    /\ props = NoProps
    /\ plan = Unrendered

\* the modelled session takes user input until MaxRequests requests were sent
SessionOpen == Len(calls) < MaxRequests

\* onChange of the text field, which is disabled while loading
handleInputChange ==
    /\ ~Crashed
    /\ SessionOpen
    /\ ~isLoading
    /\ \E value \in Typed : inputMessage' = value
    /\ last' = "change"
    /\ UNCHANGED <<messages, isLoading, calls, renderVars>>

\* onClick of an example chip, shown while the log is empty
ChipClick ==
    /\ ~Crashed
    /\ SessionOpen
    /\ Len(messages) = 0
    /\ \E q \in 1..Len(exampleQueries) : inputMessage' = exampleQueries[q]
    /\ last' = "chip"
    /\ UNCHANGED <<messages, isLoading, calls, renderVars>>

\* handleSendMessage returning at its first line
SendIgnored ==
    /\ ~Crashed
    /\ Rejects(inputMessage, isLoading)
    /\ last' = "ignored"
    /\ UNCHANGED <<messages, inputMessage, isLoading, calls, renderVars>>

\* handleSendMessage up to its await
SendAccepted ==
    /\ ~Crashed
    /\ SessionOpen
    /\ ~Rejects(inputMessage, isLoading)
    /\ messages' = AppendMessage(messages, UserMessage(inputMessage))
    /\ inputMessage' = <<>>
    /\ isLoading' = TRUE
    /\ calls' = Append(calls, [request |-> RequestBody(inputMessage),
                               state |-> "pending", status |-> 0, data |-> Undef])
    /\ last' = "accepted"
    /\ UNCHANGED renderVars

\* the promise of axios.post settles
Settle ==
    \E i \in 1..Len(calls), o \in Outcomes :
        /\ calls[i].state = "pending"
        /\ calls' = [calls EXCEPT ![i] = [request |-> calls[i].request,
                                          state |-> o.state,
                                          status |-> o.status,
                                          data |-> o.data]]
        /\ last' = "settle"
        /\ UNCHANGED <<messages, inputMessage, isLoading, renderVars>>

\* handleSendMessage after its await: rest of try, then finally
Reply ==
    \E i \in 1..Len(calls) :
        /\ Resumable(calls[i])
        /\ TryCompletes(calls[i])
        /\ messages' = AppendMessage(messages, BotMessage(calls[i].data))
        /\ isLoading' = Finally("try", isLoading)
        /\ calls' = [calls EXCEPT ![i] = Done(calls[i])]
        /\ last' = "reply"
        /\ UNCHANGED <<inputMessage, renderVars>>

\* handleSendMessage after its await: catch, then finally
Catch ==
    \E i \in 1..Len(calls) :
        /\ Resumable(calls[i])
        /\ ~TryCompletes(calls[i])
        /\ messages' = AppendMessage(messages, ErrorMessage)
        /\ isLoading' = Finally("catch", isLoading)
        /\ calls' = [calls EXCEPT ![i] = Done(calls[i])]
        /\ last' = "catch"
        /\ UNCHANGED <<inputMessage, renderVars>>

Next ==
    \/ handleInputChange
    \/ ChipClick
    \/ SendIgnored
    \/ SendAccepted
    \/ Settle
    \/ Reply
    \/ Catch

Spec == Init /\ [][Next]_vars

\* the continuation of a settled promise is a queued microtask: it runs
FairSpec == Spec /\ WF_vars(Reply) /\ WF_vars(Catch)

\* ---------------------------------------- ChartRenderer on its own
RenderInit ==
    /\ messages = <<>>
    /\ inputMessage = <<>>
    /\ isLoading = FALSE
    /\ calls = <<>>
    /\ last = "mount"
    /\ props \in PropsSet
    /\ plan = Unrendered

Render ==
    /\ plan = Unrendered
    /\ plan' = ChartRenderer(props)
    /\ UNCHANGED <<chatVars, props>>

RenderNext == Render

RenderSpec == RenderInit /\ [][RenderNext]_vars

\* ================================================================ claims
Outstanding == {i \in 1..Len(calls) : calls[i].state # "done"}

Blank(s) == \A i \in 1..Len(s) : s[i] \in WS

LastMessage(log) == log[Len(log)]

IsPrefix(a, b) == Len(a) <= Len(b) /\ SubSeq(b, 1, Len(a)) = a

\* C1: at most one remote call is outstanding in every reachable state, the
\* loading flag is set while it is, and no step taken while the flag is set
\* dispatches a request.
C1_SingleOutstandingCall ==
    /\ [](Cardinality(Outstanding) <= 1 /\ (Outstanding # {} => isLoading))
    /\ [][isLoading => Len(calls') = Len(calls)]_vars

C1_Witness ==
    /\ Len(calls) = 2
    /\ calls[1].state = "done"
    /\ calls[2].state = "pending"
    /\ last = "ignored"
    /\ isLoading

\* C2: a submit made with an empty or whitespace-only input, or while a
\* response is awaited, changes neither the log, the flag, the input buffer
\* nor the calls issued.
C2_RejectedSubmitIsNoOp ==
    [][(last' \in {"ignored", "accepted"} /\ (Blank(inputMessage) \/ isLoading))
         => UNCHANGED <<messages, isLoading, inputMessage, calls>>]_vars

C2_Witness ==
    /\ last = "ignored"
    /\ inputMessage = <<" ">>
    /\ ~isLoading
    /\ Len(messages) = 2

\* C3: once the call of a dispatched request has settled, fulfilled or
\* rejected, the loading flag eventually drops, and it is never set when no
\* call is outstanding.
C3_LoadingEventuallyCleared ==
    /\ \A st \in {"fulfilled", "rejected"} :
          (\E i \in 1..Len(calls) : calls[i].state = st) ~> ~isLoading
    /\ [](Outstanding = {} => ~isLoading)

C3_Witness ==
    /\ last = "catch"
    /\ ~isLoading
    /\ Len(calls) = 1
    /\ calls[1].state = "done"

\* C4: the step that finishes a rejected call appends exactly one message,
\* the flagged apology without payload, leaves the flag cleared and issues no
\* further call; after one submit from the empty log the log has 2 messages.
C4_FailureAppendsOneApology ==
    [][\A i \in 1..Len(calls) :
          (calls[i].state = "rejected" /\ calls'[i].state = "done")
          => /\ Len(messages') = Len(messages) + 1
             /\ SubSeq(messages', 1, Len(messages)) = messages
             /\ LastMessage(messages').type = "bot"
             /\ LastMessage(messages').isError = Bool(TRUE)
             /\ LastMessage(messages').content =
                  S("Sorry, I encountered an error processing your request.")
             /\ LastMessage(messages').data = Undef
             /\ ~isLoading'
             /\ Len(calls') = Len(calls)
             /\ \A j \in 1..Len(calls') : calls'[j].state = "done"
             /\ Len(calls) = 1 => Len(messages') = 2]_vars

C4_Witness ==
    /\ last = "catch"
    /\ Len(messages) = 2
    /\ messages[2].isError = Bool(TRUE)
    /\ ~isLoading

\* C5: the step that finishes a fulfilled call whose body has no response
\* member appends the flagged apology.
C5_MissingResponseIsFailure ==
    [][\A i \in 1..Len(calls) :
          (calls[i].state = "fulfilled" /\ ~HasKey(calls[i].data, "response")
             /\ calls'[i].state = "done")
          => /\ LastMessage(messages').isError = Bool(TRUE)
             /\ LastMessage(messages').content =
                  S("Sorry, I encountered an error processing your request.")]_vars

\* C6: the user message of a request is in the log from its dispatch on, the
\* log holds no assistant message for a request whose call has not settled,
\* an assistant message is appended only by a step taken after the call has
\* settled, and in the log it follows the user message of its request.
C6_UserBeforeCallReplyAfter ==
    /\ [](\A i \in 1..Len(calls) :
            /\ Len(messages) >= 2 * i - 1
            /\ messages[2 * i - 1].type = "user"
            /\ calls[i].state # "done" => Len(messages) = 2 * i - 1
            /\ Len(messages) >= 2 * i => messages[2 * i].type = "bot")
    /\ [][(Len(messages') > Len(messages) /\ LastMessage(messages').type = "bot")
            => \E i \in 1..Len(calls) : calls[i].state \in {"fulfilled", "rejected"}]_vars

C6_Witness ==
    /\ Len(messages) = 4
    /\ messages[3].type = "user"
    /\ messages[4].type = "bot"
    /\ last = "reply"

\* C7: every step leaves the previous log as a prefix of the new one.
C7_LogAppendOnly == [][IsPrefix(messages, messages')]_vars

C7_Witness ==
    /\ Len(messages) = 3
    /\ messages[2].isError = Bool(TRUE)
    /\ last = "accepted"

\* C8: whatever the data and the visualization type, the renderer draws a
\* chart, a table or a notice; no render throws.
C8_RenderNeverThrows ==
    (plan # Unrendered /\ Truthy(props.data))
    => Mode(plan) \in {"line", "bar", "pie", "table", "notice"}

AllObjects(items) == \A r \in 1..Len(items) : items[r].t = "object"

KeysOf(row) == [c \in 1..Len(row.v) |-> row.v[c][1]]

WidgetRow == Obj(<< <<"name", S("Widget")>>, <<"qty", Num(42)>> >>)

\* the table drawn for the given rows: columns are the keys of the first row
\* in their order, the rows are the first TableCap ones
DrawsRows(pl, rows) ==
    /\ Mode(pl) = "table"
    /\ pl.body.columns = KeysOf(rows[1])
    /\ Len(pl.body.rows) = Min(Len(rows), TableCap)
    /\ \A r \in 1..Len(pl.body.rows) :
          pl.body.rows[r] = [c \in 1..Len(rows[1].v) |->
                               CellText(Get(rows[r], rows[1].v[c][1]))]
    /\ rows = <<WidgetRow>> =>
          /\ pl.body.columns = <<"name", "qty">>
          /\ pl.body.rows = << <<"Widget", "42">> >>

\* C9 as stated: a table reply whose data member is itself the sequence of
\* row objects is drawn as the table of those rows.
C9_BareRowsDrawnAsTable ==
    \A i \in 1..Len(messages) :
        LET m == messages[i]
        IN (/\ m.type = "bot"
            /\ StrictEq(m.visualization, S("table"))
            /\ m.data.t = "array"
            /\ Len(m.data.v) > 0
            /\ AllObjects(m.data.v))
           => /\ DrawsRows(Visualization(m), m.data.v)
              /\ Len(calls) = 1 => Len(messages) = 2

\* C9 amended: a table reply whose data member is an object without
\* chart_data and whose own data member is the sequence of row objects is
\* drawn as the table of those rows, columns in the key order of the first
\* row; after one request the log is the user message and that reply.
C9_NestedRowsDrawnAsTable ==
    \A i \in 1..Len(messages) :
        LET m == messages[i]
            rows == Get(m.data, "data")
        IN (/\ m.type = "bot"
            /\ StrictEq(m.visualization, S("table"))
            /\ m.data.t = "object"
            /\ ~HasKey(m.data, "chart_data")
            /\ rows.t = "array"
            /\ Len(rows.v) > 0
            /\ AllObjects(rows.v))
           => /\ DrawsRows(Visualization(m), rows.v)
              /\ Len(calls) = 1 => (Len(messages) = 2 /\ messages[1].type = "user")

C9_Witness ==
    /\ Len(messages) = 2
    /\ last = "reply"
    /\ messages[2].data = Obj(<< <<"data", Arr(<<WidgetRow>>)>> >>)
    /\ StrictEq(messages[2].visualization, S("table"))
    /\ Mode(Visualization(messages[2])) = "table"

ExplicitTypes == {S("line"), S("bar"), S("pie"), S("table")}

\* labels and datasets are both there, under chart_data.data
ChartShaped(data) ==
    /\ HasKey(data, "chart_data")
    /\ HasKey(Get(data, "chart_data"), "data")
    /\ Truthy(Get(Get(Get(data, "chart_data"), "data"), "labels"))
    /\ Truthy(Get(Get(Get(data, "chart_data"), "data"), "datasets"))

\* the outcome is the one of the table renderer
ByTableRenderer(pl) ==
    \/ pl.kind = "throw"
    \/ Mode(pl) = "table"
    \/ (pl.kind = "paper" /\ pl.body = NoDataNotice)

IsUnableNotice(pl) ==
    /\ pl.kind = "paper"
    /\ pl.body.kind = "notice"
    /\ pl.body.text # "No data available for display"

\* C10 as stated: line, bar and pie select their chart when the chart data
\* is there, table selects the table, and an unrecognized or missing type
\* selects the table as well, never a chart or the unable-to-render notice.
C10_DefaultIsTable ==
    (plan # Unrendered /\ Truthy(props.data))
    => /\ \A mode \in {"line", "bar", "pie"} :
             (props.visualizationType = S(mode) /\ ChartShaped(props.data))
             => Mode(plan) = mode
       /\ props.visualizationType = S("table") => ByTableRenderer(plan)
       /\ props.visualizationType \notin ExplicitTypes
             => (Mode(plan) \notin {"line", "bar", "pie"} /\ ~IsUnableNotice(plan))

\* C10 amended: an unrecognized or missing type selects the table renderer
\* when the chart data is there and the unable-to-render notice when it is
\* not; line, bar, pie and table select as stated.
C10_DefaultDependsOnChartData ==
    (plan # Unrendered /\ Truthy(props.data))
    => /\ \A mode \in {"line", "bar", "pie"} :
             (props.visualizationType = S(mode) /\ ChartShaped(props.data))
             => Mode(plan) = mode
       /\ props.visualizationType = S("table") => ByTableRenderer(plan)
       /\ props.visualizationType \notin ExplicitTypes
             => IF ChartShaped(props.data) THEN ByTableRenderer(plan)
                ELSE IsUnableNotice(plan)

C10_Witness ==
    /\ props.visualizationType = Undef
    /\ props.data = Obj(<< <<"data", Arr(<<WidgetRow>>)>> >>)
    /\ IsUnableNotice(plan)

\* the chart payload of the data, undefined when there is none
ChartPayload(data) == OptGet(Get(data, "chart_data"), "data")

\* non-empty labels and datasets whose values line up with the labels
ValidChart(data) ==
    LET d == ChartPayload(data)
        labels == OptGet(d, "labels")
        datasets == OptGet(d, "datasets")
    IN /\ labels.t = "array"
       /\ Len(labels.v) > 0
       /\ datasets.t = "array"
       /\ \A k \in 1..Len(datasets.v) :
             /\ Get(datasets.v[k], "data").t = "array"
             /\ Len(Get(datasets.v[k], "data").v) = Len(labels.v)

\* C11: a chart payload with missing or empty labels, missing datasets or a
\* dataset out of step with the labels is never drawn as a chart and never
\* throws: line, bar and pie give the unable-to-render notice, table gives a
\* table or a notice.
C11_InvalidChartNeverDrawn ==
    (/\ plan # Unrendered
     /\ Truthy(props.data)
     /\ HasKey(props.data, "chart_data")
     /\ ~ValidChart(props.data))
    => /\ plan.kind # "throw"
       /\ Mode(plan) \notin {"line", "bar", "pie"}
       /\ props.visualizationType \in {S("line"), S("bar"), S("pie")}
             => IsUnableNotice(plan)
       /\ props.visualizationType = S("table")
             => Mode(plan) \in {"table", "notice"}

SourceRows(data) ==
    IF Truthy(ChartPayload(data)) THEN ChartPayload(data) ELSE Get(data, "data")

\* the total a drawn table tells: the count in its caption, or, without a
\* caption, the number of rows it shows
TotalShown(table) ==
    IF table.caption = <<>> THEN Len(table.rows) ELSE table.caption[2]

\* C13: a table drawn from n rows shows exactly min(n, 10) rows, the first
\* ones in order, and tells the total n: in the caption "Showing 10 of n"
\* when n exceeds 10, by the rows themselves otherwise.
C13_TableRowCap ==
    Mode(plan) = "table"
    => LET src == SourceRows(props.data).v
           n == Len(src)
           shown == plan.body.rows
       IN /\ Len(shown) = (IF n < 10 THEN n ELSE 10)
          /\ TotalShown(plan.body) = n
          /\ n > 10 <=> plan.body.caption # <<>>
          /\ n > 10 => plan.body.caption[1] = 10
          /\ ~HasKey(props.data, "chart_data")
                => \A r \in 1..Len(shown) :
                      shown[r] = [c \in 1..Len(src[1].v) |->
                                    CellText(Get(src[r], src[1].v[c][1]))]
          /\ n = 25 => (Len(shown) = 10 /\ TotalShown(plan.body) = 25)

C13_Witness ==
    /\ props.data = Obj(<< <<"data", RowsOf(25)>> >>)
    /\ Mode(plan) = "table"
    /\ Len(plan.body.rows) = 10
    /\ plan.body.rows[10] = <<"Widget", "51">>
    /\ plan.body.caption = <<10, 25>>

\* C14: the log alternates user and assistant messages from a user message
\* on, holds one assistant message for every request whose handler has
\* finished and none for the others, and the loading flag is set exactly
\* when the last message is a user message, that is, when the length is odd.
C14_AlternatingLog ==
    /\ \A k \in 1..Len(messages) :
          messages[k].type = (IF k % 2 = 1 THEN "user" ELSE "bot")
    /\ Cardinality({k \in 1..Len(messages) : messages[k].type = "user"}) = Len(calls)
    /\ Cardinality({k \in 1..Len(messages) : messages[k].type = "bot"})
          = Cardinality({i \in 1..Len(calls) : calls[i].state = "done"})
    /\ isLoading <=> (Len(messages) > 0 /\ LastMessage(messages).type = "user")
    /\ isLoading <=> Len(messages) % 2 = 1

C14_Witness ==
    /\ Len(messages) = 4
    /\ messages[2].isError = Bool(TRUE)
    /\ messages[4].isError = Undef
    /\ ~isLoading
    /\ last = "reply"

\* C15: the text sent with a request is the content of the user message of
\* that request and is never empty; the step that dispatches it sends the
\* input as it was before the step and leaves the input buffer empty.
C15_SentTextIsUserText ==
    /\ [](\A i \in 1..Len(calls) :
            /\ Get(calls[i].request, "message") = messages[2 * i - 1].content
            /\ Get(calls[i].request, "message").t = "string"
            /\ ~Blank(Get(calls[i].request, "message").v))
    /\ [][Len(calls') > Len(calls)
            => /\ Get(calls'[Len(calls')].request, "message") = Str(inputMessage)
               /\ LastMessage(messages').content = Str(inputMessage)
               /\ inputMessage' = <<>>]_vars

C15_Witness ==
    /\ Len(calls) = 1
    /\ last = "accepted"
    /\ inputMessage = <<>>
    /\ Get(calls[1].request, "message") = S("Show me a chart of sales trends")
    /\ messages[1].content = S("Show me a chart of sales trends")

\* C16: in every state only an assistant message that carries data and
\* whose hint is not 'text' has anything drawn below its bubble; a user
\* message and a failed assistant message have nothing drawn.
C16_VisualizationOnlyForDataReplies ==
    \A k \in 1..Len(messages) :
        LET m == messages[k]
            drawn == Visualization(m) # [kind |-> "none"]
        IN /\ drawn => /\ m.type = "bot"
                       /\ Truthy(m.data)
                       /\ m.visualization # S("text")
           /\ (m.type = "user" \/ m.isError = Bool(TRUE)) => ~drawn

C16_Witness ==
    /\ Len(messages) = 4
    /\ messages[2].isError = Bool(TRUE)
    /\ messages[4].visualization = S("text")
    /\ Truthy(messages[4].data)
    /\ \A k \in 1..4 : Visualization(messages[k]) = [kind |-> "none"]

====
